---- MODULE Spec2Model ----
(***************************************************************************)
(* A model of the arena allocator of src/arena.h and of the string         *)
(* builder of src/sb.h.                                                    *)
(*                                                                         *)
(* Machine words (uintptr_t, size_t) are WordBits wide and every sum and   *)
(* difference the code computes is taken modulo W = 2^WordBits.  The       *)
(* backing block is a caller-owned buffer at BufBase; the arena is bound   *)
(* to it, or to the address one past its start, by arena_init.  Bytes are  *)
(* 0 (zero) or non-zero: 1 for a byte the caller stores in a grant, 1 or 2 *)
(* for the bytes of the caller's strings.  The builder's buffer is a heap  *)
(* block of its own.                                                       *)
(***************************************************************************)
EXTENDS Integers, Sequences, FiniteSets, TLC

\* ------------------------------------------------------------- bounds ----
WordBits == 5
MaxCap == 4
MaxAlignLog == 2
MaxLive == 2
MaxStr == 2
MaxSbCap == 6

W == 2^WordBits
Word == 0..(W - 1)
Wrap(x) == x % W

\* ----------------------------------------------------- program constants --
NULL == 0
ENOMEM == 12
\* 2*sizeof(void *), a pointer taking one byte of the model's memory
ARENA_DEFAULT_ALIGNMENT == 2

\* ------------------------------------------------------- caller's buffer --
BufBase == W \div 4
BufLen == MaxCap + 1
BufAddrs == BufBase..(BufBase + BufLen - 1)
MemBases == {BufBase, BufBase + 1}
Caps == {MaxCap}
Aligns == {2^i : i \in 0..MaxAlignLog}
Sizes == (0..(MaxCap + 1)) \cup {W - 1}

VARIABLES
    a,        \* struct arena: mem, cap, curr_offset, prev_offset
    memory,   \* the bytes of the caller's buffer, by address
    errno,    \* the C errno
    crashed,  \* the process died inside a call (a faulting store)
    last,     \* the last call made on the arena, its arguments and result
    live,     \* the (pointer, size) grants the caller holds since the last reset
    dead,     \* the non-empty regions reallocate moved a grant away from, since the last reset
    fn,       \* a call of one of the pure alignment primitives
    sb        \* struct string_builder: cap, len, and the bytes of the heap block buf

vars == <<a, memory, errno, crashed, last, live, dead, fn, sb>>

\* ------------------------------------------------ alignment primitives ----
RECURSIVE BitAnd(_, _)
BitAnd(x, y) ==
    IF x = 0 \/ y = 0 THEN 0
    ELSE (x % 2) * (y % 2) + 2 * BitAnd(x \div 2, y \div 2)

\* (v&(v-1)) == 0, v-1 taken modulo W
pow_2(v) == BitAnd(v, Wrap(v + W - 1)) = 0

\* align_forward with the padding taken as mod instead of a - mod
align_forward_addmod(ptr, alignment) ==
    LET mod == BitAnd(ptr, Wrap(alignment + W - 1))
    IN  IF mod # 0 THEN Wrap(ptr + mod) ELSE ptr

\* align_forward rounding down to the alignment
align_forward_down(ptr, alignment) ==
    LET mod == BitAnd(ptr, Wrap(alignment + W - 1))
    IN  Wrap(ptr + W - mod)

align_forward(ptr, alignment) ==
    LET mod == BitAnd(ptr, Wrap(alignment + W - 1))
    IN  IF mod # 0 THEN Wrap(ptr + Wrap(alignment + W - mod)) ELSE ptr

\* ------------------------------------------------------ memory stores -----
\* What a store of n bytes at address p does to the process:
\*   "ok"    every byte lies in the caller's buffer;
\*   "fault" the range runs past the last address of the machine: no such
\*           memory exists and the store faults;
\*   "stray" some byte lies outside the buffer (undefined behaviour: the
\*           build may fault or may silently overwrite a neighbour).
StoreClass(p, n) ==
    IF n = 0 THEN "ok"
    ELSE IF p + n > W THEN "fault"
    ELSE IF \A i \in 0..(n - 1) : (p + i) \in BufAddrs THEN "ok"
    ELSE "stray"

Worse(u, v) ==
    IF u = "fault" \/ v = "fault" THEN "fault"
    ELSE IF u = "stray" \/ v = "stray" THEN "stray"
    ELSE "ok"

memset(m, p, c, n) ==
    [x \in DOMAIN m |-> IF p <= x /\ x < p + n THEN c ELSE m[x]]

memmove(m, dst, src, n) ==
    [x \in DOMAIN m |->
        IF dst <= x /\ x < dst + n
        THEN (IF (src + (x - dst)) \in DOMAIN m THEN m[src + (x - dst)] ELSE 0)
        ELSE m[x]]

\* A load of n bytes at p that leaves the buffer is undefined behaviour too.
LoadClass(p, n) ==
    IF n = 0 \/ \A i \in 0..(n - 1) : (p + i) \in BufAddrs THEN "ok" ELSE "stray"

\* -------------------------------------------------------- the machine -----
\* The operators below take and return the machine as a record
\*   [a, memory, errno, ub, ret]
\* so that one call can be composed of others, as in the source.

\* arena_aligned_alloc without its memset
AllocZeroNone(m, ptr, size) == m

\* memset(ptr, 0, size) of arena_aligned_alloc
AllocZero(m, ptr, size) == memset(m, ptr, 0, size)

\* arena_aligned_alloc with the capacity test offset+size < a->cap
arena_aligned_alloc_strict(s, alignment, size) ==
    LET curr == Wrap(s.a.mem + s.a.curr_offset)
        offset == Wrap(align_forward(curr, alignment) + W - s.a.mem)
    IN  IF Wrap(offset + size) < s.a.cap
        THEN LET ptr == Wrap(s.a.mem + offset)
             IN  [s EXCEPT !.a.prev_offset = offset,
                           !.a.curr_offset = Wrap(offset + size),
                           !.memory = AllocZero(s.memory, ptr, size),
                           !.ub = Worse(s.ub, StoreClass(ptr, size)),
                           !.ret = ptr]
        ELSE [s EXCEPT !.errno = ENOMEM, !.ret = NULL]

arena_aligned_alloc(s, alignment, size) ==
    LET curr == Wrap(s.a.mem + s.a.curr_offset)
        offset == Wrap(align_forward(curr, alignment) + W - s.a.mem)
    IN  IF Wrap(offset + size) <= s.a.cap
        THEN LET ptr == Wrap(s.a.mem + offset)
             IN  [s EXCEPT !.a.prev_offset = offset,
                           !.a.curr_offset = Wrap(offset + size),
                           !.memory = AllocZero(s.memory, ptr, size),
                           !.ub = Worse(s.ub, StoreClass(ptr, size)),
                           !.ret = ptr]
        ELSE [s EXCEPT !.errno = ENOMEM, !.ret = NULL]

\* the range test with <= for the upper end
InArenaInclusive(s, old) == s.a.mem <= old /\ old <= Wrap(s.a.mem + s.a.cap)

\* a->mem <= old && old < a->mem+a->cap
InArena(s, old) == s.a.mem <= old /\ old < Wrap(s.a.mem + s.a.cap)

\* the copy one byte short when the span grows
copy_size_off_by_one(old_size, new_size) ==
    IF old_size < new_size THEN old_size - 1 ELSE new_size

\* old_size < new_size ? old_size : new_size
copy_size(old_size, new_size) == IF old_size < new_size THEN old_size ELSE new_size

arena_aligned_realloc(s, alignment, old, old_size, new_size) ==
    IF old = NULL \/ old_size = 0
    THEN arena_aligned_alloc(s, alignment, new_size)
    ELSE IF InArena(s, old)
    THEN IF Wrap(s.a.mem + s.a.prev_offset) = old
         THEN LET c == Wrap(s.a.prev_offset + new_size)
                  n == IF new_size > old_size THEN new_size - old_size ELSE 0
                  p == Wrap(s.a.mem + c)
              IN  [s EXCEPT !.a.curr_offset = c,
                            !.memory = memset(s.memory, p, 0, n),
                            !.ub = Worse(s.ub, StoreClass(p, n)),
                            !.ret = old]
         ELSE LET t == arena_aligned_alloc(s, alignment, new_size)
                  n == copy_size(old_size, new_size)
              IN  [t EXCEPT !.memory = memmove(t.memory, t.ret, old, n),
                            !.ub = Worse(t.ub, Worse(StoreClass(t.ret, n),
                                                     LoadClass(old, n)))]
    ELSE [s EXCEPT !.errno = ENOMEM, !.ret = NULL]

arena_init(s, mem, cap) ==
    [s EXCEPT !.a = [mem |-> mem, cap |-> cap, curr_offset |-> 0, prev_offset |-> 0]]

arena_deinit(s) ==
    [s EXCEPT !.memory = memset(s.memory, s.a.mem, 0, s.a.curr_offset),
              !.ub = Worse(s.ub, StoreClass(s.a.mem, s.a.curr_offset)),
              !.a = [mem |-> NULL, cap |-> 0, curr_offset |-> 0, prev_offset |-> 0]]

\* arena_reset clearing prev_offset only
arena_reset_prev_only(s) ==
    [s EXCEPT !.a.prev_offset = 0]

arena_reset(s) ==
    [s EXCEPT !.a.curr_offset = 0, !.a.prev_offset = 0]

arena_zero(s) ==
    arena_reset([s EXCEPT !.memory = memset(s.memory, s.a.mem, 0, s.a.curr_offset),
                          !.ub = Worse(s.ub, StoreClass(s.a.mem, s.a.curr_offset))])

arena_alloc(s, size) == arena_aligned_alloc(s, ARENA_DEFAULT_ALIGNMENT, size)

arena_realloc(s, old, old_size, new_size) ==
    arena_aligned_realloc(s, ARENA_DEFAULT_ALIGNMENT, old, old_size, new_size)

\* memcpy(dst, src, n) from an object of the caller, given as its n bytes
memcpy(m, dst, bytes) ==
    [x \in DOMAIN m |->
        IF dst <= x /\ x < dst + Len(bytes) THEN bytes[x - dst + 1] ELSE m[x]]

\* the first n bytes of an object
Prefix(bytes, n) == SubSeq(bytes, 1, n)

\* src is the object's bytes, size their number
arena_memdup(s, src, size) ==
    LET t == arena_alloc(s, size)
    IN  IF t.ret # NULL
        THEN [t EXCEPT !.memory = memcpy(t.memory, t.ret, Prefix(src, size)),
                       !.ub = Worse(t.ub, StoreClass(t.ret, size))]
        ELSE t

\* src is the string's bytes before its terminator; strlen(src) is their
\* number.  dup[len] is the byte after the len bytes allocated.
arena_strdup(s, src) ==
    LET len == Wrap(Len(src) + 1)
        t == arena_alloc(s, len)
        end == Wrap(t.ret + len)
    IN  IF t.ret # NULL
        THEN [t EXCEPT !.memory = memset(memcpy(t.memory, t.ret, src \o <<0>>), end, 0, 1),
                       !.ub = Worse(t.ub, Worse(StoreClass(t.ret, len), StoreClass(end, 1)))]
        ELSE t

\* strnlen(src, size)
strnlen(src, size) == IF Len(src) < size THEN Len(src) ELSE size

arena_strndup(s, src, size) ==
    LET len == strnlen(src, size)
        t == arena_alloc(s, Wrap(len + 1))
        end == Wrap(t.ret + len)
    IN  IF t.ret # NULL
        THEN [t EXCEPT !.memory = memset(memcpy(t.memory, t.ret, Prefix(src, len)), end, 0, 1),
                       !.ub = Worse(t.ub, Worse(StoreClass(t.ret, len), StoreClass(end, 1)))]
        ELSE t

\* ------------------------------------------------------------ caller ------
\* The caller clears errno before every call, so that after the call errno
\* tells whether the call set it.
Machine == [a |-> a, memory |-> memory, errno |-> 0, ub |-> "ok", ret |-> NULL]

NoFn == [op |-> "none", x |-> 0, k |-> 1, r |-> 0]

\* no string builder: sb_init has not run
NoSb == [cap |-> 0, len |-> 0, buf |-> <<>>, live |-> FALSE]

Grant(ptr, size) == [ptr |-> ptr, size |-> size]

\* The caller holds at most MaxLive grants between two resets.
Remember(grants, g) == Append(grants, g)

Forget(grants, i) ==
    SubSeq(grants, 1, i - 1) \o SubSeq(grants, i + 1, Len(grants))

\* Some byte of the span [p, p+n) is non-zero.
Residue(m, p, n) ==
    \E x \in DOMAIN m : p <= x /\ x < p + n /\ m[x] # 0

\* The call returns (or the process dies in it) with the machine as t.  The
\* record of the call keeps the grant of the caller it was passed (NULL when
\* none) and its result: the pointer returned, the size of the span granted
\* (0 when the call signalled failure) and whether that span held a non-zero
\* byte when the call was made.
Return(t, op, old, size, grants) ==
    /\ a' = t.a
    /\ memory' = t.memory
    /\ errno' = t.errno
    /\ crashed' \in (IF t.ub = "ok" THEN {FALSE}
                     ELSE IF t.ub = "fault" THEN {TRUE} ELSE {FALSE, TRUE})
    /\ last' = [op |-> op, old |-> old, ret |-> t.ret,
                size |-> IF t.errno = 0 THEN size ELSE 0,
                residue |-> t.errno = 0 /\ Residue(memory, t.ret, size)]
    /\ live' = grants
    /\ UNCHANGED <<fn, sb>>

NoCall(op) == [op |-> op, old |-> NULL, ret |-> NULL, size |-> 0, residue |-> FALSE]

Init ==
    /\ \E mem \in MemBases, cap \in Caps :
          a = [mem |-> mem, cap |-> cap, curr_offset |-> 0, prev_offset |-> 0]
    /\ memory = [x \in BufAddrs |-> 0]
    /\ errno = 0
    /\ crashed = FALSE
    /\ last = NoCall("init")
    /\ live = <<>>
    /\ dead = {}
    /\ fn = NoFn
    /\ sb = NoSb

\* initialize(memory, capacity): the caller binds an unbound arena
ArenaInit(mem, cap) ==
    /\ ~crashed
    /\ a.mem = NULL
    /\ \E t \in {arena_init(Machine, mem, cap)} : Return(t, "init", NULL, 0, <<>>)
    /\ dead' = {}

Deinit ==
    /\ ~crashed
    /\ \E t \in {arena_deinit(Machine)} : Return(t, "deinit", NULL, 0, <<>>)
    /\ dead' = {}

Reset ==
    /\ ~crashed
    /\ \E t \in {arena_reset(Machine)} : Return(t, "reset", NULL, 0, <<>>)
    /\ dead' = {}

Zero ==
    /\ ~crashed
    /\ \E t \in {arena_zero(Machine)} : Return(t, "zero", NULL, 0, <<>>)
    /\ dead' = {}

\* allocate(alignment, size)
Alloc(alignment, size) ==
    /\ ~crashed
    /\ \E t \in {arena_aligned_alloc(Machine, alignment, size)} :
           /\ t.errno = 0 => Len(live) < MaxLive
           /\ Return(t, "alloc", NULL, size,
                     IF t.errno = 0 THEN Remember(live, Grant(t.ret, size)) ELSE live)
    /\ UNCHANGED dead

\* reallocate(NULL, old_size, new_size): a plain allocate
ReallocFresh(alignment, old_size, new_size) ==
    /\ ~crashed
    /\ \E t \in {arena_aligned_realloc(Machine, alignment, NULL, old_size, new_size)} :
           /\ t.errno = 0 => Len(live) < MaxLive
           /\ Return(t, "realloc_fresh", NULL, new_size,
                     IF t.errno = 0 THEN Remember(live, Grant(t.ret, new_size)) ELSE live)
    /\ UNCHANGED dead

\* reallocate of the i-th grant the caller holds, at the size it was granted.
\* Resized in place the grant keeps its place; relocated (or, of size 0,
\* allocated afresh) it becomes the caller's latest grant.
ReallocLive(alignment, i, new_size) ==
    /\ ~crashed
    /\ i \in 1..Len(live)
    /\ LET old == live[i].ptr
           old_size == live[i].size
           inplace == /\ old_size > 0
                      /\ a.mem <= old /\ old < a.mem + a.cap
                      /\ Wrap(a.mem + a.prev_offset) = old
       IN  \E t \in {arena_aligned_realloc(Machine, alignment, old, old_size, new_size)} :
             /\ Return(t, "realloc_live", old, new_size,
                       IF t.errno # 0 THEN live
                       ELSE IF inplace THEN [live EXCEPT ![i].size = new_size]
                       ELSE Append(Forget(live, i), Grant(t.ret, new_size)))
             /\ dead' = IF t.errno = 0 /\ ~inplace /\ old_size > 0
                        THEN dead \cup (old..(old + old_size - 1)) ELSE dead

\* reallocate of a pointer that is not in [mem, mem+cap)
ReallocForeign(alignment, old, old_size, new_size) ==
    /\ ~crashed
    /\ old # NULL /\ old_size > 0
    /\ ~(a.mem <= old /\ old < a.mem + a.cap)
    /\ \E t \in {arena_aligned_realloc(Machine, alignment, old, old_size, new_size)} :
           Return(t, "realloc_foreign", NULL, new_size, live)
    /\ UNCHANGED dead

\* the caller stores a non-zero byte in a span it was granted
Write(x) ==
    /\ ~crashed
    /\ \E i \in 1..Len(live) : live[i].ptr <= x /\ x < live[i].ptr + live[i].size
    /\ memory' = [memory EXCEPT ![x] = 1]
    /\ last' = NoCall("write")
    /\ errno' = 0
    /\ UNCHANGED <<a, crashed, live, dead, fn, sb>>

ForeignPtrs == {BufBase - 1, BufBase, BufBase + MaxCap, BufBase + MaxCap + 1}

Next ==
    \/ \E mem \in MemBases, cap \in Caps : ArenaInit(mem, cap)
    \/ Deinit
    \/ Reset
    \/ Zero
    \/ \E al \in Aligns, size \in Sizes : Alloc(al, size)
    \/ \E al \in Aligns, size \in Sizes : ReallocFresh(al, size % 2, size)
    \/ \E al \in Aligns, i \in 1..MaxLive, size \in Sizes : ReallocLive(al, i, size)
    \/ \E al \in Aligns, old \in ForeignPtrs : ReallocForeign(al, old, al, MaxCap)
    \/ \E x \in BufAddrs : Write(x)

Spec == Init /\ [][Next]_vars

\* ------------------------------------------- the duplicating operations ---
\* The bytes of the caller's strings and objects: a string is given by its
\* bytes before the terminator, fewer than the capacity.
StrBytes == {1, 2}
Strings == UNION {[1..n -> StrBytes] : n \in 0..(MaxCap - 1)}

\* duplicate(source, size) of a whole object of the caller
Memdup(src) ==
    /\ ~crashed
    /\ \E t \in {arena_memdup(Machine, src, Len(src))} :
           /\ t.ret # NULL => Len(live) < MaxLive
           /\ Return(t, "memdup", NULL, Len(src),
                     IF t.ret # NULL THEN Remember(live, Grant(t.ret, Len(src))) ELSE live)
    /\ UNCHANGED dead

\* duplicate-string(source)
Strdup(src) ==
    /\ ~crashed
    /\ \E t \in {arena_strdup(Machine, src)} :
           /\ t.ret # NULL => Len(live) < MaxLive
           /\ Return(t, "strdup", NULL, Len(src) + 1,
                     IF t.ret # NULL THEN Remember(live, Grant(t.ret, Len(src) + 1)) ELSE live)
    /\ UNCHANGED dead

\* duplicate-string-bounded(source, size)
Strndup(src, size) ==
    /\ ~crashed
    /\ \E t \in {arena_strndup(Machine, src, size)} :
           /\ t.ret # NULL => Len(live) < MaxLive
           /\ Return(t, "strndup", NULL, strnlen(src, size) + 1,
                     IF t.ret # NULL
                     THEN Remember(live, Grant(t.ret, strnlen(src, size) + 1)) ELSE live)
    /\ UNCHANGED dead

NextDup ==
    \/ Reset
    \/ Zero
    \/ \E al \in Aligns, size \in {0, 1} : Alloc(al, size)
    \/ \E src \in Strings : Memdup(src)
    \/ \E src \in Strings : Strdup(src)
    \/ \E src \in Strings, size \in {1, MaxCap} : Strndup(src, size)
    \/ \E x \in BufAddrs : Write(x)

SpecDup == Init /\ [][NextDup]_vars

\* ------------------------------------------------- the string builder ----
\* The heap block of the builder is the sequence sb.buf of its bytes; sb.live
\* tells whether sb.buf is a block malloc gave and free has not taken.  The
\* operators take and return the machine [sb, ub, ret]; ok tells whether the
\* heap serves the request the call makes (malloc, realloc return non-NULL).

\* A store of n bytes at offset off of a heap block of blockLen bytes.
HeapStore(blockLen, off, n) ==
    IF n = 0 \/ off + n <= blockLen THEN "ok" ELSE "stray"

Zeros(n) == [i \in 1..n |-> 0]

\* realloc keeps the bytes of the old block; memset(buf + sb->len, 0,
\* cap - sb->len) zeroes the rest.
sb_grow(s, size, ok) ==
    LET cap == Wrap(s.sb.cap + size)
        n == Wrap(cap + W - s.sb.len)
    IN  IF size < s.sb.cap THEN [s EXCEPT !.ret = FALSE]
        ELSE IF ~ok THEN [s EXCEPT !.ret = FALSE]
        ELSE [s EXCEPT !.sb.buf = [i \in 1..cap |->
                                      IF i <= s.sb.len /\ i <= Len(s.sb.buf)
                                      THEN s.sb.buf[i] ELSE 0],
                       !.sb.cap = cap,
                       !.ub = Worse(s.ub, HeapStore(cap, s.sb.len, n)),
                       !.ret = TRUE]

\* format "%s" with argument str: vsnprintf(NULL, 0, ...) is strlen(str), and
\* vsnprintf(dst + sb->len, len+1, ...) stores str and its terminator.
sb_vwritef(s, str, ok) ==
    LET len == Len(str)
        need == Wrap(s.sb.len + len + 1) >= s.sb.cap
        g == IF need THEN sb_grow(s, Wrap(len * 2), ok) ELSE s
    IN  IF need /\ ~g.ret THEN [g EXCEPT !.ret = 0]
        ELSE [g EXCEPT !.sb.buf = [i \in 1..Len(g.sb.buf) |->
                                      IF g.sb.len < i /\ i <= g.sb.len + len
                                      THEN str[i - g.sb.len]
                                      ELSE IF i = g.sb.len + len + 1 THEN 0
                                      ELSE g.sb.buf[i]],
                       !.ub = Worse(g.ub, HeapStore(Len(g.sb.buf), g.sb.len, len + 1)),
                       !.sb.len = Wrap(g.sb.len + len),
                       !.ret = len]

sb_writef(s, str, ok) == sb_vwritef(s, str, ok)

sb_write(s, str, ok) == sb_writef(s, str, ok)

\* memset(NULL, 0, cap) when malloc fails
sb_init_cap(s, cap, ok) ==
    [s EXCEPT !.sb = [cap |-> cap, len |-> 0, buf |-> Zeros(cap), live |-> TRUE],
              !.ub = IF ~ok /\ cap > 0 THEN "fault" ELSE s.ub]

\* sb->len is not assigned before sb_write reads it
sb_init_from(s, str, ok) ==
    LET cap == Wrap(Len(str) * 2)
    IN  sb_write([s EXCEPT !.sb.cap = cap, !.sb.buf = Zeros(cap), !.sb.live = TRUE,
                           !.ub = IF ~ok /\ cap > 0 THEN "fault" ELSE s.ub],
                 str, ok)

sb_deinit(s) == [s EXCEPT !.sb = [cap |-> 0, len |-> 0, buf |-> <<>>, live |-> FALSE]]

sb_clear(s) ==
    [s EXCEPT !.sb.buf = Zeros(Len(s.sb.buf)), !.sb.len = 0,
              !.ub = Worse(s.ub, HeapStore(Len(s.sb.buf), 0, s.sb.cap))]

SbMachine == [sb |-> sb, ub |-> "ok", ret |-> 0]

SbStrings == UNION {[1..n -> StrBytes] : n \in 0..MaxStr}

\* The call returns (or the process dies in it) with the machine as t; ret is
\* its result and size the length of the string or the size it was passed.
SbReturn(t, op, ret, size) ==
    /\ sb' = t.sb
    /\ crashed' \in (IF t.ub = "ok" THEN {FALSE}
                     ELSE IF t.ub = "fault" THEN {TRUE} ELSE {FALSE, TRUE})
    /\ last' = [op |-> op, old |-> NULL, ret |-> ret, size |-> size, residue |-> FALSE]
    /\ UNCHANGED <<a, memory, errno, live, dead, fn>>

\* The fields of a struct string_builder no sb_init has run on hold what the
\* caller's memory held.
InitSb ==
    /\ a = [mem |-> NULL, cap |-> 0, curr_offset |-> 0, prev_offset |-> 0]
    /\ memory = [x \in BufAddrs |-> 0]
    /\ errno = 0
    /\ crashed = FALSE
    /\ last = NoCall("none")
    /\ live = <<>>
    /\ dead = {}
    /\ fn = NoFn
    /\ \E g \in {0, 1} : sb = [NoSb EXCEPT !.len = g]

SbInitCap(cap, ok) ==
    /\ ~crashed /\ ~sb.live
    /\ \E t \in {sb_init_cap(SbMachine, cap, ok)} : SbReturn(t, "sb_init_cap", 0, cap)

SbInitFrom(str, ok) ==
    /\ ~crashed /\ ~sb.live
    /\ \E t \in {sb_init_from(SbMachine, str, ok)} :
           SbReturn(t, "sb_init_from", 0, Len(str))

SbDeinit ==
    /\ ~crashed /\ sb.live
    /\ \E t \in {sb_deinit(SbMachine)} : SbReturn(t, "sb_deinit", 0, 0)

SbClear ==
    /\ ~crashed /\ sb.live
    /\ \E t \in {sb_clear(SbMachine)} : SbReturn(t, "sb_clear", 0, 0)

SbWrite(str, ok) ==
    /\ ~crashed /\ sb.live
    /\ sb.cap + 2 * Len(str) <= MaxSbCap
    /\ \E t \in {sb_write(SbMachine, str, ok)} : SbReturn(t, "sb_write", t.ret, Len(str))

SbGrow(size, ok) ==
    /\ ~crashed /\ sb.live
    /\ sb.cap + size <= MaxSbCap
    /\ \E t \in {sb_grow(SbMachine, size, ok)} :
           SbReturn(t, "sb_grow", IF t.ret THEN 1 ELSE 0, size)

NextSb ==
    \/ \E cap \in 0..(MaxStr + 1), ok \in BOOLEAN : SbInitCap(cap, ok)
    \/ \E str \in SbStrings, ok \in BOOLEAN : SbInitFrom(str, ok)
    \/ SbDeinit
    \/ SbClear
    \/ \E str \in SbStrings, ok \in BOOLEAN : SbWrite(str, ok)
    \/ \E size \in 0..MaxSbCap, ok \in BOOLEAN : SbGrow(size, ok)

SpecSb == InitSb /\ [][NextSb]_vars

\* ------------------------------------------- the pure primitives, alone ---
PowersOfTwo == {2^i : i \in 0..(WordBits - 1)}

InitPure ==
    /\ a = [mem |-> NULL, cap |-> 0, curr_offset |-> 0, prev_offset |-> 0]
    /\ memory = [x \in BufAddrs |-> 0]
    /\ errno = 0
    /\ crashed = FALSE
    /\ last = NoCall("none")
    /\ live = <<>>
    /\ dead = {}
    /\ sb = NoSb
    /\ \E x \in Word, k \in PowersOfTwo : fn = [op |-> "input", x |-> x, k |-> k, r |-> 0]

CallAlignForward ==
    /\ fn.op = "input"
    /\ fn' = [fn EXCEPT !.op = "align_forward", !.r = align_forward(fn.x, fn.k)]
    /\ UNCHANGED <<a, memory, errno, crashed, last, live, dead, sb>>

CallPow2 ==
    /\ fn.op = "input"
    /\ fn' = [fn EXCEPT !.op = "pow_2", !.r = IF pow_2(fn.x) THEN 1 ELSE 0]
    /\ UNCHANGED <<a, memory, errno, crashed, last, live, dead, sb>>

NextPure == CallAlignForward \/ CallPow2

SpecPure == InitPure /\ [][NextPure]_vars

\* ================================================================ claims ==
AllocOps == {"alloc", "realloc_fresh", "realloc_live", "realloc_foreign"}

\* The offset arena_aligned_alloc would grant at, as the code computes it.
AllocOffset(alignment) ==
    Wrap(align_forward(Wrap(a.mem + a.curr_offset), alignment) + W - a.mem)

Min(x, y) == IF x < y THEN x ELSE y

\* C1: in every state reachable by init, allocate, reallocate, reset,
\* zero_reset and deinit, 0 <= prev_offset <= curr_offset <= cap.
C1_OffsetsOrdered ==
    ~crashed =>
        /\ 0 <= a.prev_offset
        /\ a.prev_offset <= a.curr_offset
        /\ a.curr_offset <= a.cap

\* C2: every pointer returned by a successful allocation call lies in
\* [mem, mem+cap) and its span satisfies offset + size <= cap.
C2_GrantInBounds ==
    (~crashed /\ last.op \in AllocOps /\ errno = 0) =>
        /\ a.mem <= last.ret
        /\ last.ret < a.mem + a.cap
        /\ (last.ret - a.mem) + last.size <= a.cap

\* C3: an allocate whose aligned offset plus size exceeds cap fails with
\* (NULL, ENOMEM) and leaves curr_offset, prev_offset and the bytes as they were.
C3_FailLeavesState ==
    [][\A al \in Aligns, size \in Sizes :
          (/\ last'.op = "alloc"
           /\ AllocOffset(al) + size > a.cap
           /\ Alloc(al, size)) =>
              /\ last'.ret = NULL
              /\ errno' = ENOMEM
              /\ a' = a
              /\ memory' = memory
              /\ ~crashed']_vars

\* C4: immediately after a successful allocate every byte of the returned
\* span is zero, whatever the bytes held before the call.
C4_FreshSpanZero ==
    (~crashed /\ last.op = "alloc" /\ errno = 0) =>
        \A i \in 0..(last.size - 1) : memory[last.ret + i] = 0

\* an allocate was granted a span of several bytes that held a non-zero byte
C4_Witness ==
    /\ ~crashed /\ last.op = "alloc" /\ errno = 0
    /\ last.size > 1 /\ last.residue

\* C5: when allocate(N), N > 0, has just returned P, reallocate(P, N, M)
\* returns P, sets curr_offset to prev_offset + M, keeps the first min(N, M)
\* bytes of P and, if M > N, leaves bytes [N, M) of P zero.
C5_InPlaceGrow ==
    [][\A al \in Aligns, M \in Sizes :
          (/\ last.op = "alloc" /\ errno = 0 /\ last.size > 0
           /\ last'.op = "realloc_live"
           /\ Len(live) > 0
           /\ live[Len(live)] = Grant(last.ret, last.size)
           /\ ReallocLive(al, Len(live), M)
           /\ ~crashed') =>
              LET P == live[Len(live)].ptr
                  N == live[Len(live)].size
              IN  /\ last'.ret = P
                  /\ a'.curr_offset = a.prev_offset + M
                  /\ \A j \in 0..(Min(N, M) - 1) :
                        (P + j) \in BufAddrs => memory'[P + j] = memory[P + j]
                  /\ \A j \in N..(M - 1) :
                        (P + j) \in BufAddrs => memory'[P + j] = 0]_vars

\* C6 (as stated): reallocate(P, N, M) of a grant that is not the latest
\* returns a new pointer P' # P whose first min(N, M) bytes are P's, and
\* curr_offset only advances.
C6_RelocateAlways ==
    [][\A al \in Aligns, M \in Sizes, i \in 1..MaxLive :
          (/\ last'.op = "realloc_live"
           /\ i < Len(live)
           /\ ReallocLive(al, i, M)
           /\ ~crashed') =>
              LET P == live[i].ptr
                  N == live[i].size
                  Q == last'.ret
              IN  /\ Q # NULL /\ Q # P
                  /\ \A j \in 0..(Min(N, M) - 1) :
                        /\ (Q + j) \in BufAddrs
                        /\ memory'[Q + j] = memory[P + j]
                  /\ a'.curr_offset >= a.curr_offset]_vars

\* C6 (amended): if N > 0 and the fresh allocation of M bytes fits (aligned
\* offset + M <= cap), reallocate(P, N, M) of a grant that is not the latest
\* succeeds and returns a new pointer P' # P whose first min(N, M) bytes are
\* P's content at the time of the call, and curr_offset only advances.
C6_RelocateWhenFits ==
    ~crashed =>
        \A al \in Aligns, M \in Sizes, i \in 1..MaxLive :
            (/\ i < Len(live)
             /\ live[i].size > 0
             /\ AllocOffset(al) + M <= a.cap) =>
                LET P == live[i].ptr
                    N == live[i].size
                IN  \A t \in {arena_aligned_realloc(Machine, al, P, N, M)} :
                       /\ t.ub = "ok" /\ t.errno = 0
                       /\ t.ret # NULL /\ t.ret # P
                       /\ \A j \in 0..(Min(N, M) - 1) :
                             /\ (t.ret + j) \in BufAddrs
                             /\ t.memory[t.ret + j] = memory[P + j]
                       /\ t.a.curr_offset >= a.curr_offset

\* a grant of several bytes, its last byte non-zero, was moved behind a later
\* grant of the caller
C6_Witness ==
    /\ ~crashed /\ last.op = "realloc_live" /\ errno = 0
    /\ last.old # NULL /\ last.ret # last.old
    /\ Len(live) = 2
    /\ last.old < live[1].ptr /\ live[1].ptr + live[1].size <= last.ret
    /\ live[2] = Grant(last.ret, last.size)
    /\ last.size > 1
    /\ memory[last.ret + 1] # 0

\* C9: reallocate of a non-null pointer outside [mem, mem+cap) with
\* old_size > 0 fails with (NULL, ENOMEM) and changes neither the offsets nor
\* the bytes.
C9_ForeignFails ==
    ~crashed =>
        \A al \in Aligns, old \in ForeignPtrs \cup {1, W - 1},
           old_size \in {1, MaxCap}, M \in {0, MaxCap} :
            (old # NULL /\ ~(a.mem <= old /\ old < a.mem + a.cap)) =>
                \A t \in {arena_aligned_realloc(Machine, al, old, old_size, M)} :
                   /\ t.ret = NULL
                   /\ t.errno = ENOMEM
                   /\ t.a = a
                   /\ t.memory = memory
                   /\ t.ub = "ok"

\* a bound arena with a grant in use refused a foreign pointer
C9_Witness ==
    /\ ~crashed /\ last.op = "realloc_foreign"
    /\ last.ret = NULL /\ errno = ENOMEM
    /\ a.cap > 0 /\ a.curr_offset > 0 /\ Len(live) > 0
    /\ \E x \in BufAddrs : memory[x] # 0

\* C10: after deinit the arena has cap = 0, mem unbound and both offsets 0,
\* and every allocate or reallocate made in that state fails with (NULL, ENOMEM).
C10_EmptyFails ==
    /\ last.op = "deinit" =>
          a = [mem |-> NULL, cap |-> 0, curr_offset |-> 0, prev_offset |-> 0]
    /\ (~crashed /\ a.mem = NULL /\ a.cap = 0 /\ last.op \in AllocOps) =>
          (last.ret = NULL /\ errno = ENOMEM)

\* The requests of a run of allocate calls.
Requests == [al : Aligns, size : {0, 1, MaxCap}]

\* A run of allocate calls made from machine s: for each call whether it
\* succeeded and, if so, the offset it returned.
RECURSIVE AllocRun(_, _)
AllocRun(s, reqs) ==
    IF reqs = <<>> THEN <<>>
    ELSE LET t == arena_aligned_alloc([s EXCEPT !.errno = 0], reqs[1].al, reqs[1].size)
         IN  <<[ok |-> t.errno = 0,
                off |-> IF t.errno = 0 THEN Wrap(t.ret + W - s.a.mem) ELSE 0]>>
             \o AllocRun(t, Tail(reqs))

\* C11: reset followed by reset leaves the state reset leaves, and after
\* reset every run of allocate calls returns the offsets and the successes and
\* failures it returns on an arena freshly initialized over the same memory
\* and capacity.
C11_ResetLikeFresh ==
    /\ ~crashed => arena_reset(arena_reset(Machine)) = arena_reset(Machine)
    /\ (~crashed /\ last.op = "reset") =>
          \A r1 \in Requests, r2 \in Requests, r3 \in Requests :
              AllocRun(Machine, <<r1, r2, r3>>) =
                  AllocRun(arena_init(Machine, a.mem, a.cap), <<r1, r2, r3>>)

\* a bound arena was reset with a byte of an earlier grant still non-zero
C11_Witness ==
    /\ ~crashed /\ last.op = "reset" /\ a.mem # NULL
    /\ \E x \in BufAddrs : memory[x] # 0

\* C12: for every string s whose length is less than the capacity (and, read
\* in the claim's favour, whose length(s)+1 bytes fit at the aligned offset),
\* duplicate-string(s) succeeds and the span it returns holds the bytes of s
\* followed by the terminator.
C12_StrdupCopies ==
    ~crashed =>
        \A src \in Strings :
            (/\ a.mem # NULL
             /\ Len(src) < a.cap
             /\ AllocOffset(ARENA_DEFAULT_ALIGNMENT) + Len(src) + 1 <= a.cap) =>
                \A t \in {arena_strdup(Machine, src)} :
                   /\ t.ub = "ok"
                   /\ t.ret # NULL /\ t.errno = 0
                   /\ \A j \in 1..Len(src) :
                         (t.ret + j - 1) \in BufAddrs /\ t.memory[t.ret + j - 1] = src[j]
                   /\ (t.ret + Len(src)) \in BufAddrs /\ t.memory[t.ret + Len(src)] = 0

\* C13 (as stated): allocate(0) on a bound arena always succeeds, for every
\* reachable curr_offset and every power-of-two alignment, with a pointer and
\* prev_offset = curr_offset = the aligned offset.
C13_ZeroAlwaysSucceeds ==
    (~crashed /\ a.mem # NULL) =>
        \A al \in Aligns :
            \A t \in {arena_aligned_alloc(Machine, al, 0)} :
               /\ t.errno = 0 /\ t.ret # NULL
               /\ t.a.prev_offset = AllocOffset(al)
               /\ t.a.curr_offset = AllocOffset(al)

\* C13 (amended): allocate(0) on a bound arena succeeds exactly when the
\* aligned offset is at most cap: it then returns the aligned address
\* mem + offset, sets prev_offset = curr_offset = that offset (less than one
\* alignment past the old curr_offset) and stores nothing; when the padding
\* takes the offset past cap it fails with (NULL, ENOMEM) and the offsets stay.
C13_ZeroSucceedsIfAlignedFits ==
    (~crashed /\ a.mem # NULL) =>
        \A al \in Aligns :
            \A t \in {arena_aligned_alloc(Machine, al, 0)} :
               IF AllocOffset(al) <= a.cap
               THEN /\ t.errno = 0 /\ t.ub = "ok"
                    /\ t.ret = a.mem + AllocOffset(al)
                    /\ t.ret % al = 0
                    /\ t.a.prev_offset = AllocOffset(al)
                    /\ t.a.curr_offset = AllocOffset(al)
                    /\ a.curr_offset <= AllocOffset(al)
                    /\ AllocOffset(al) - a.curr_offset < al
                    /\ t.memory = memory
               ELSE /\ t.errno = ENOMEM /\ t.ret = NULL
                    /\ t.a = a /\ t.memory = memory /\ t.ub = "ok"

\* an allocate(0) was granted the aligned address past the padding that
\* follows the caller's earlier, non-empty grant
C13_Witness ==
    /\ ~crashed /\ last.op = "alloc" /\ errno = 0 /\ last.ret # NULL
    /\ a.prev_offset = a.curr_offset
    /\ Len(live) = 2 /\ live[2] = Grant(last.ret, 0)
    /\ live[1].size > 0 /\ live[1].ptr + live[1].size < last.ret

\* C14: on an initialized string builder, when the heap serves the request,
\* sb_write(sb, s) returns strlen(s), len grows by strlen(s) and the buffer
\* holds the previous content followed by s, for every len, cap and s.
C14_WriteAppends ==
    (~crashed /\ sb.live) =>
        \A str \in SbStrings :
            \A t \in {sb_write(SbMachine, str, TRUE)} :
               /\ t.ub = "ok"
               /\ t.ret = Len(str)
               /\ t.sb.len = sb.len + Len(str)
               /\ t.sb.len <= Len(t.sb.buf)
               /\ Prefix(t.sb.buf, t.sb.len) = Prefix(sb.buf, sb.len) \o str

\* C15: sb_grow(sb, size) returns true and adds exactly size to cap, leaving
\* len and the first len bytes alone, for every size whenever realloc
\* succeeds; it returns false only when realloc fails, and then leaves cap,
\* len and buf alone.
C15_GrowAddsSize ==
    (~crashed /\ sb.live /\ sb.len <= sb.cap) =>
        \A size \in 0..MaxSbCap :
            /\ \A t \in {sb_grow(SbMachine, size, TRUE)} :
                  /\ t.ret = TRUE
                  /\ t.sb.cap = sb.cap + size
                  /\ t.sb.len = sb.len
                  /\ Prefix(t.sb.buf, sb.len) = Prefix(sb.buf, sb.len)
            /\ \A t \in {sb_grow(SbMachine, size, FALSE)} :
                  t.ret = FALSE /\ t.sb = sb

\* C16: when reallocate is passed a grant inside the arena that is not the
\* last allocation and the fresh allocate of new_size does not fit, it
\* returns (NULL, ENOMEM) without copying a byte and leaves the offsets and
\* the backing memory as they were.
C16_RelocateFailClean ==
    ~crashed =>
        \A al \in Aligns, M \in 0..(MaxCap + 1), i \in 1..MaxLive :
            (/\ i <= Len(live)
             /\ live[i].size > 0
             /\ InArena(Machine, live[i].ptr)
             /\ Wrap(a.mem + a.prev_offset) # live[i].ptr
             /\ AllocOffset(al) + M > a.cap) =>
                \A t \in {arena_aligned_realloc(Machine, al, live[i].ptr, live[i].size, M)} :
                   /\ t.ret = NULL /\ t.errno = ENOMEM
                   /\ t.ub = "ok"
                   /\ t.a = a /\ t.memory = memory

\* C17: the capacity check of allocate is overflow-safe: a request whose
\* aligned offset + size exceeds cap as an integer fails, and the offsets
\* stay, also when offset + size wraps modulo 2^w to a value <= cap.
C17_OverflowSafe ==
    (~crashed /\ a.mem # NULL) =>
        \A al \in Aligns, size \in Sizes :
            (/\ AllocOffset(al) + size > a.cap
             /\ Wrap(AllocOffset(al) + size) <= a.cap) =>
                \A t \in {arena_aligned_alloc(Machine, al, size)} :
                   /\ t.ret = NULL /\ t.errno = ENOMEM
                   /\ t.a.curr_offset = a.curr_offset
                   /\ t.a.prev_offset = a.prev_offset

\* The call that left the machine as t stored only inside the span of size
\* bytes it granted: no store left the buffer, and every byte that changed
\* lies in [ret, ret+size) and in [mem, mem+cap).
StoresInsideSpan(t, size) ==
    /\ t.ub = "ok"
    /\ \A x \in BufAddrs :
          t.memory[x] # memory[x] =>
              /\ t.ret # NULL
              /\ t.ret <= x /\ x < t.ret + size
              /\ a.mem <= x /\ x < a.mem + a.cap

\* C18: every byte an arena operation writes (the zero-fill of allocate, the
\* tail zero-fill of in-place reallocate, the copy of relocating reallocate,
\* the copy and terminator stores of memdup, strdup and strndup) lies inside
\* the span the operation grants, hence inside [0, cap) of the backing memory.
C18_WritesInsideSpan ==
    (~crashed /\ a.mem # NULL) =>
        /\ \A al \in Aligns, size \in 0..(MaxCap + 1) :
              \A t \in {arena_aligned_alloc(Machine, al, size)} :
                 StoresInsideSpan(t, size)
        /\ \A al \in Aligns, M \in 0..(MaxCap + 1), i \in 1..MaxLive :
              (i <= Len(live) /\ live[i].size > 0) =>
                 \A t \in {arena_aligned_realloc(Machine, al, live[i].ptr, live[i].size, M)} :
                    t.errno = 0 => StoresInsideSpan(t, M)
        /\ \A src \in Strings :
              /\ \A t \in {arena_memdup(Machine, src, Len(src))} :
                    StoresInsideSpan(t, Len(src))
              /\ \A t \in {arena_strdup(Machine, src)} :
                    StoresInsideSpan(t, Len(src) + 1)
              /\ \A t \in {arena_strndup(Machine, src, MaxStr)} :
                    StoresInsideSpan(t, strnlen(src, MaxStr) + 1)

\* The addresses of the span of a grant.
Span(g) == g.ptr..(g.ptr + g.size - 1)

\* The call that left the machine as t can return, and returns success.
Succeeds(t) == t.errno = 0 /\ t.ub # "fault"

\* C19: between two resets, when the caller passes only the pointers and
\* sizes it was granted, the non-empty spans handed out, each at its latest
\* size and the regions reallocate moved a grant away from included, are
\* pairwise disjoint, and no successful allocate or reallocate changes a byte
\* of another grant the caller holds.
C19_SpansDisjoint ==
    ~crashed =>
        /\ \A i \in 1..Len(live), j \in 1..Len(live) :
              i < j => Span(live[i]) \cap Span(live[j]) = {}
        /\ \A i \in 1..Len(live) : Span(live[i]) \cap dead = {}
        /\ \A al \in Aligns, size \in Sizes :
              \A t \in {arena_aligned_alloc(Machine, al, size)} :
                 Succeeds(t) =>
                    \A j \in 1..Len(live) : \A x \in Span(live[j]) \cap BufAddrs :
                        t.memory[x] = memory[x]
        /\ \A al \in Aligns, M \in Sizes, i \in 1..Len(live) :
              \A t \in {arena_aligned_realloc(Machine, al, live[i].ptr, live[i].size, M)} :
                 Succeeds(t) =>
                    \A j \in 1..Len(live) : \A x \in Span(live[j]) \cap BufAddrs :
                        j # i => t.memory[x] = memory[x]

\* the caller holds two non-empty grants, one of them moved by reallocate
\* away from a region that now lies dead
C19_Witness ==
    /\ ~crashed /\ last.op = "realloc_live" /\ errno = 0
    /\ dead # {}
    /\ Len(live) = 2 /\ live[1].size > 0 /\ live[2].size > 0
    /\ live[2].ptr = last.ret

\* C20: the backing memory being all zero at init, after zero_reset returns
\* every byte of the backing memory is zero, whatever allocate, in-place and
\* relocating reallocate and reset calls (and stores of the caller into its
\* grants) came before.
C20_ZeroLeavesNothing ==
    (~crashed /\ last.op = "zero") =>
        \A x \in BufAddrs : (a.mem <= x /\ x < a.mem + a.cap) => memory[x] = 0

\* ------------------------------------------------ the pure primitives -----
RECURSIVE PopCount(_)
PopCount(v) == IF v = 0 THEN 0 ELSE (v % 2) + PopCount(v \div 2)

\* The smallest multiple of k at or after x, as an integer.
NextMultiple(x, k) == ((x + k - 1) \div k) * k

\* C7 (as stated): for all addresses and power-of-two alignments k,
\* r = align_forward(x, k) has r >= x, r % k = 0 and r - x < k.
C7_AlignedUp ==
    fn.op = "align_forward" =>
        /\ fn.r >= fn.x
        /\ fn.r % fn.k = 0
        /\ fn.r - fn.x < fn.k

\* C7 (amended): r % k = 0 always; r >= x and r - x < k (r is the smallest
\* multiple of k at or after x) whenever that multiple is below 2^w; for the
\* other addresses, above 2^w - k, the result wraps to 0.
C7_AlignedUpInRange ==
    fn.op = "align_forward" =>
        /\ fn.r % fn.k = 0
        /\ NextMultiple(fn.x, fn.k) < W =>
              (fn.r >= fn.x /\ fn.r - fn.x < fn.k /\ fn.r = NextMultiple(fn.x, fn.k))
        /\ NextMultiple(fn.x, fn.k) >= W => fn.r = 0

\* an unaligned address was moved up by several bytes
C7_Witness ==
    /\ fn.op = "align_forward"
    /\ fn.k > 2
    /\ fn.r > fn.x + 1
    /\ fn.x > W \div 2

\* C8: pow_2(v) is true exactly when v has exactly one set bit, 0 included.
C8_OneBit ==
    fn.op = "pow_2" => ((fn.r = 1) <=> (PopCount(fn.x) = 1))

====
